---- MODULE Spec2Model ----
(***************************************************************************)
(* Toss: a shared clipboard whose entries are optionally encrypted on the  *)
(* client.  The module models src/utils/crypto.ts (CryptoUtil and          *)
(* ASEKeyManager), the compose / render / reload paths of src/app/app.vue, *)
(* and the two dialogs that change the stored key                          *)
(* (src/components/ASEKeyModal.vue, src/components/LoginModal.vue).        *)
(*                                                                         *)
(* A JavaScript string is a sequence of UTF-16 code units; here a sequence *)
(* of one-character TLA+ strings.  The code unit LoneSurrogate stands for  *)
(* an unpaired surrogate (0xD800-0xDFFF without its partner), the one kind *)
(* of code unit that CryptoJS's UTF-8 encoder refuses.                     *)
(***************************************************************************)
EXTENDS Integers, Sequences, FiniteSets, TLC

(***************************************************************************)
(* Bounds of the model.                                                    *)
(***************************************************************************)
\* longest passphrase drawn for the cipher specification
MaxKeyLen == 9
\* longest plaintext drawn for the cipher specification
MaxTextLen == 2
\* salts 0..MaxSalt are drawn by CryptoJS.AES.encrypt's random salt
MaxSalt == 1
\* rows the clipboard table accepts
MaxRows == 2

Salts == 0..MaxSalt

(***************************************************************************)
(* Program constants.                                                      *)
(***************************************************************************)
\* src/utils/crypto.ts:70  keyString.trim().length < 8
MinKeyLength == 8

LoneSurrogate == "D800"
Whitespace == {" "}
Char == {"a", "b", " ", LoneSurrogate}

(***************************************************************************)
(* String helpers: String.prototype.trim and the well-formedness that      *)
(* encodeURIComponent (inside CryptoJS.enc.Utf8.parse) demands.            *)
(***************************************************************************)
RECURSIVE TrimStart(_)
TrimStart(s) ==
  IF s = <<>> THEN <<>>
  ELSE IF Head(s) \in Whitespace THEN TrimStart(Tail(s)) ELSE s

RECURSIVE TrimEnd(_)
TrimEnd(s) ==
  IF s = <<>> THEN <<>>
  ELSE IF s[Len(s)] \in Whitespace THEN TrimEnd(SubSeq(s, 1, Len(s) - 1)) ELSE s

trim(s) == TrimEnd(TrimStart(s))

\* encodeURIComponent throws URIError on an unpaired surrogate
IsWellFormed(s) == \A i \in 1..Len(s) : s[i] # LoneSurrogate

RECURSIVE Rep(_, _)
Rep(c, n) == IF n = 0 THEN <<>> ELSE <<c>> \o Rep(c, n - 1)

(***************************************************************************)
(* Values.  A function either returns a value or throws.                   *)
(***************************************************************************)
Return(v) == [ok |-> TRUE, val |-> v]
Throw(msg) == [ok |-> FALSE, val |-> <<msg>>]

\* A stored content is either a typed string or a ciphertext envelope: the
\* OpenSSL-format Base64 string "Salted__" + salt + AES-CBC ciphertext that
\* CryptoJS.AES.encrypt(...).toString() produces.  The envelope is kept
\* symbolically: the salt, the key string the KDF was fed, and the plaintext.
PlainContent(s) == [env |-> FALSE, salt |-> 0, key |-> <<>>, str |-> s]
Envelope(salt, key, s) == [env |-> TRUE, salt |-> salt, key |-> key, str |-> s]
NoContent == PlainContent(<<"undefined">>)

(***************************************************************************)
(* State.                                                                  *)
(***************************************************************************)
VARIABLES
  \* the inputs, the envelope and the result of one cipher experiment
  cp1, cp2, cs, cphase, cenv, cres,
  \* the browser: localStorage's ASEToken slot, and the last alert() shown
  storage, alert,
  \* src/app/app.vue: refs, the rendered list, the pending render flush and
  \* the position of the onMounted hook
  currentUser, tossMessages, text, showLoginModal, showASEKeyModal,
  rendered, dirty, mountPhase,
  \* the backend: auth session, clipboard table, requests in flight, the
  \* realtime callbacks registered and the change events not yet delivered
  authSession, table, inserts, selects, authReqs, listeners, events,
  \* LoginModal: refs of the form and of the key section, pending timers.
  \* The contents of the input fields (email, password, ASEToken) are the
  \* inputs of the actions that submit them.
  loginLoading, loginError, aseKeyStatus, clearTimers,
  \* src/components/ASEKeyModal.vue: refs; keyInput and confirmKeyInput are
  \* the inputs of saveKey
  showSkipOption, keyLoading, keyError,
  \* one call of the key manager made by a caller other than the page:
  \* process.client, how localStorage answers, the operation called, its
  \* argument, what it returned or threw, and the slot as the call found it
  kmClient, kmStore, kmOp, kmArg, kmRes, kmBefore

cipherVars == <<cp1, cp2, cs, cphase, cenv, cres>>
appVars == <<currentUser, tossMessages, text, showLoginModal, showASEKeyModal,
             rendered, dirty, mountPhase>>
backendVars == <<authSession, table, inserts, selects, authReqs, listeners, events>>
loginVars == <<loginLoading, loginError, aseKeyStatus, clearTimers>>
keyModalVars == <<showSkipOption, keyLoading, keyError>>
kmVars == <<kmClient, kmStore, kmOp, kmArg, kmRes, kmBefore>>
vars == <<cipherVars, kmVars, storage, alert, appVars, backendVars, loginVars,
          keyModalVars>>

(***************************************************************************)
(* CryptoJS, as far as src/utils/crypto.ts uses it.                        *)
(***************************************************************************)
\* CryptoJS.SHA256(keyString).toString(): a string is first UTF-8 encoded
\* (which throws on an unpaired surrogate); the digest is kept symbolically
\* as the tagged input, so that distinct inputs give distinct digests.
SHA256 == "sha256"
generateKeyTrimmed(keyString) ==
  IF IsWellFormed(keyString) THEN Return(<<SHA256>> \o trim(keyString))
  ELSE Throw("URIError")
generateKey(keyString) ==
  IF IsWellFormed(keyString) THEN Return(<<SHA256>> \o keyString)
  ELSE Throw("URIError")

\* CryptoJS.AES.encrypt(plainText, key).toString() with a string key:
\* UTF-8 encodes the plaintext, draws a random salt, derives key and IV from
\* (key, salt) and returns the OpenSSL envelope.
AESEncrypt(plainText, key, salt) ==
  IF IsWellFormed(plainText) THEN Return(Envelope(salt, key, plainText))
  ELSE [ok |-> FALSE, val |-> NoContent]

\* What the bytes recovered under a key other than the envelope's decode to.
\* CryptoJS's Pkcs7.unpad does not verify the padding and AES-CBC carries no
\* authentication tag, so a wrong key yields pseudo-random bytes, cut by the
\* value of their last byte.  CryptoJS.enc.Utf8.stringify then throws
\* 'Malformed UTF-8 data' (the usual case), returns '' (the cut removed every
\* byte) or returns a non-empty garbage string (the bytes left happen to be
\* valid UTF-8).  Which of the three happens is a function of the salt, the
\* keys and the ciphertext; the salt is random, so the model lets it choose.
Malformed == "malformed"
Empty == "empty"
Garbage == "garbage"
GarbageText == <<"?">>
WrongKeyOutcome(salt) ==
  CASE salt % 3 = 0 -> Malformed
    [] salt % 3 = 1 -> Garbage
    [] OTHER -> Empty

\* CryptoJS.AES.decrypt(encryptedText, key).toString(CryptoJS.enc.Utf8).
\* A typed string shorter than one AES block parses (Base64) to less than a
\* block of ciphertext: nothing is decrypted and the result is ''.
AESDecryptUtf8(encryptedText, key) ==
  IF ~encryptedText.env THEN Return(<<>>)
  ELSE IF encryptedText.key = key THEN Return(encryptedText.str)
  ELSE CASE WrongKeyOutcome(encryptedText.salt) = Malformed -> Throw("Malformed UTF-8 data")
         [] WrongKeyOutcome(encryptedText.salt) = Empty -> Return(<<>>)
         [] OTHER -> Return(GarbageText)

(***************************************************************************)
(* CryptoUtil  (src/utils/crypto.ts)                                       *)
(***************************************************************************)
EncryptionError == [ok |-> FALSE, val |-> NoContent]
DecryptionError == Throw("DecryptionError")

encrypt(plainText, keyString, salt) ==
  LET key == generateKey(keyString) IN
  IF ~key.ok THEN EncryptionError
  ELSE LET encrypted == AESEncrypt(plainText, key.val, salt) IN
       IF ~encrypted.ok THEN EncryptionError ELSE encrypted

decryptRawKey(encryptedText, keyString) ==
  LET plaintext == AESDecryptUtf8(encryptedText, keyString) IN
  IF ~plaintext.ok THEN DecryptionError
  ELSE IF plaintext.val = <<>> THEN DecryptionError
  ELSE plaintext
decrypt(encryptedText, keyString) ==
  LET key == generateKey(keyString) IN
  IF ~key.ok THEN DecryptionError
  ELSE LET plaintext == AESDecryptUtf8(encryptedText, key.val) IN
       IF ~plaintext.ok THEN DecryptionError
       ELSE IF plaintext.val = <<>> THEN DecryptionError
       ELSE plaintext

validateKeyUntrimmed(keyString) ==
  IF keyString = <<>> \/ Len(trim(keyString)) = 0 THEN FALSE
  ELSE IF Len(keyString) < MinKeyLength THEN FALSE
  ELSE TRUE
validateKey(keyString) ==
  IF keyString = <<>> \/ Len(trim(keyString)) = 0 THEN FALSE
  ELSE IF Len(trim(keyString)) < MinKeyLength THEN FALSE
  ELSE TRUE

\* the self-test encrypts and decrypts under the same key, so its result does
\* not depend on the salt encrypt draws; salt 0 stands for any
TestText == <<"t", "e", "s", "t">>
testKeyIgnoresFailure(keyString) ==
  LET encrypted == encrypt(TestText, keyString, 0) IN
  IF ~encrypted.ok THEN TRUE
  ELSE LET decrypted == decrypt(encrypted.val, keyString) IN
       IF ~decrypted.ok THEN TRUE ELSE TestText = decrypted.val
testKeyComparesCiphertext(keyString) ==
  LET encrypted == encrypt(TestText, keyString, 0) IN
  IF ~encrypted.ok THEN FALSE
  ELSE LET decrypted == decrypt(encrypted.val, keyString) IN
       IF ~decrypted.ok THEN FALSE ELSE TestText = <<"U2FsdGVkX1">>
testKey(keyString) ==
  LET encrypted == encrypt(TestText, keyString, 0) IN
  IF ~encrypted.ok THEN FALSE
  ELSE LET decrypted == decrypt(encrypted.val, keyString) IN
       IF ~decrypted.ok THEN FALSE ELSE TestText = decrypted.val

(***************************************************************************)
(* ASEKeyManager  (src/utils/crypto.ts).  The slot is localStorage's       *)
(* 'ASEToken' item: NULL when absent (getItem returns null).  client is    *)
(* process.client.                                                         *)
(***************************************************************************)
NULL == <<"null">>

\* setKey whose write has not happened when the caller goes on
setKeyNotYet(client, slot, key) == slot

getKeyAnyContext(client, slot) == slot
getKey(client, slot) == IF client THEN slot ELSE NULL
setKeyValidated(client, slot, key) ==
  IF client /\ validateKey(key) THEN key ELSE slot
setKey(client, slot, key) == IF client THEN key ELSE slot
removeKeyStoresEmpty(client, slot) == IF client THEN <<>> ELSE slot
removeKey(client, slot) == IF client THEN NULL ELSE slot
\* hasKey that never finds a key
hasKeyNever(client, slot) == FALSE
hasKeyTruthy(client, slot) ==
  getKey(client, slot) # NULL /\ getKey(client, slot) # <<>>
hasKey(client, slot) == getKey(client, slot) # NULL
\* a JavaScript string is falsy exactly when it is empty; null is falsy
Truthy(key) == key # NULL /\ key # <<>>
isKeyValidNoSelfTest(client, slot) ==
  LET key == getKey(client, slot) IN
  IF ~Truthy(key) THEN FALSE ELSE validateKey(key)
isKeyValid(client, slot) ==
  LET key == getKey(client, slot) IN
  IF ~Truthy(key) THEN FALSE ELSE validateKey(key) /\ testKey(key)

\* every handler of the application runs in the browser
ProcessClient == TRUE

(***************************************************************************)
(* Inputs of the application model.                                        *)
(***************************************************************************)
K1 == Rep("a", MinKeyLength)
K2 == Rep("b", MinKeyLength)
KShort == Rep("a", MinKeyLength - 1)
KSurrogate == Rep("a", MinKeyLength - 1) \o <<LoneSurrogate>>
KPadded == <<" ">> \o K2
\* what a user types into a passphrase field
AppKeys == {<<>>, KShort, K1, K2, KPadded, KSurrogate}
\* what a user types into the compose field
AppTexts == {<<>>, <<"a">>}

NoUser == "null"
Users == {"u1"}

\* the account registered at the backend, and what a user types into the form
Emails == {"", "u1-at-toss", "u1@toss.io"}
Passwords == {"", "12345", "secret1", "wrong12"}
EmailMatchesPattern(e) == e = "u1@toss.io"
PasswordLength(p) == CASE p = "" -> 0 [] p = "12345" -> 5 [] OTHER -> 7
AccountOf(e, p) == IF e = "u1@toss.io" /\ p = "secret1" THEN "u1" ELSE NoUser

(***************************************************************************)
(* src/app/app.vue: rendering.                                             *)
(***************************************************************************)
\* '[加密内容 - 需要ASE密钥]'  (encrypted content - key required)
KeyRequiredPlaceholder == <<"[key required]">>
\* '[解密失败 - 密钥错误]'  (decryption failed - wrong key)
DecryptFailedPlaceholder == <<"[decryption failed - wrong key]">>
\* '[解密失败]'
RenderFailedPlaceholder == <<"[decryption failed]">>

\* the display text of a content: a typed string or the envelope's Base64 text
Verbatim(content) == IF content.env THEN <<"U2FsdGVkX1">> ELSE content.str

decryptContentNoKeyCheck(content, isEncrypted, slot) ==
  IF ~isEncrypted THEN Return(Verbatim(content))
  ELSE LET aseKey == getKey(ProcessClient, slot) IN
       IF ~Truthy(aseKey) THEN Return(DecryptFailedPlaceholder)
       ELSE LET plain == decrypt(content, aseKey) IN
            IF plain.ok THEN plain ELSE Return(DecryptFailedPlaceholder)
decryptContentRethrow(content, isEncrypted, slot) ==
  IF ~isEncrypted THEN Return(Verbatim(content))
  ELSE LET aseKey == getKey(ProcessClient, slot) IN
       IF ~Truthy(aseKey) THEN Return(KeyRequiredPlaceholder)
       ELSE decrypt(content, aseKey)
decryptContent(content, isEncrypted, slot) ==
  IF ~isEncrypted THEN Return(Verbatim(content))
  ELSE LET aseKey == getKey(ProcessClient, slot) IN
       IF ~Truthy(aseKey) THEN Return(KeyRequiredPlaceholder)
       ELSE LET plain == decrypt(content, aseKey) IN
            IF plain.ok THEN plain ELSE Return(DecryptFailedPlaceholder)

decryptTextContent(content, isEncrypted, slot) ==
  IF ~isEncrypted THEN Return(Verbatim(content))
  ELSE LET shown == decryptContent(content, isEncrypted, slot) IN
       IF shown.ok THEN shown ELSE Return(RenderFailedPlaceholder)

\* template, v-for: text.encrypted ? decryptTextContent(text.content, true)
\*                                 : text.content
RenderEntry(entry, slot) ==
  IF entry.encrypted THEN decryptTextContent(entry.content, TRUE, slot)
  ELSE Return(Verbatim(entry.content))

RenderListAbortOnFailure(msgs, slot, shown) ==
  IF \E i \in 1..Len(msgs) : RenderEntry(msgs[i], slot).val = DecryptFailedPlaceholder
  THEN shown
  ELSE [i \in 1..Len(msgs) |-> RenderEntry(msgs[i], slot).val]
\* One run of the component's render effect.  An exception inside the
\* render function aborts the patch: the list on screen stays as it was.
RenderList(msgs, slot, shown) ==
  IF \E i \in 1..Len(msgs) : ~RenderEntry(msgs[i], slot).ok THEN shown
  ELSE [i \in 1..Len(msgs) |-> RenderEntry(msgs[i], slot).val]

(***************************************************************************)
(* Bounds on what is in flight.                                            *)
(***************************************************************************)
\* requests awaiting their response
MaxInFlight == 1
\* realtime callbacks registered over the life of the page
MaxListeners == 1
\* the same, in the specification of the change feed
MaxFeedListeners == 2
\* change events not yet delivered that are not inserts
MaxEvents == 1

\* No dialog covers the page (both overlays are position: fixed, full-screen)
\* and no render flush is pending: the page itself takes a click or a key.
PageActive == ~dirty /\ alert = "none" /\ ~showLoginModal /\ ~showASEKeyModal

\* a task of the event loop may start: no render flush is pending and no
\* alert() dialog is blocking the thread
Idle == ~dirty /\ alert = "none"

\* the requests the backend has not answered yet
InFlight ==
  Len(inserts) + Len(selects) + Len(authReqs)
    + (IF mountPhase = "getUser" THEN 1 ELSE 0)

RemoveAt(seq, i) == SubSeq(seq, 1, i - 1) \o SubSeq(seq, i + 1, Len(seq))

(***************************************************************************)
(* src/app/app.vue                                                         *)
(***************************************************************************)
\* selectAllTossMessages up to its await: the query it sends, if any
SelectRequest(cont, user) == [cont |-> cont, user_id |-> user, served |-> FALSE, data |-> <<>>]

\* the render effect, flushed after a handler changed the component's state
Render ==
  /\ dirty
  /\ rendered' = RenderList(tossMessages, storage, rendered)
  /\ dirty' = FALSE
  /\ UNCHANGED <<cipherVars, kmVars, storage, alert, currentUser, tossMessages, text,
                 showLoginModal, showASEKeyModal, mountPhase, backendVars,
                 loginVars, keyModalVars>>

\* the user dismisses the alert() dialog
DismissAlert ==
  /\ alert # "none"
  /\ alert' = "none"
  /\ UNCHANGED <<cipherVars, kmVars, storage, appVars, backendVars, loginVars, keyModalVars>>

\* v-model="text"
TypeText ==
  /\ PageActive
  /\ \E t \in AppTexts : text' = t
  /\ text' # text
  /\ dirty' = TRUE
  /\ UNCHANGED <<cipherVars, kmVars, storage, alert, currentUser, tossMessages,
                 showLoginModal, showASEKeyModal, rendered, mountPhase,
                 backendVars, loginVars, keyModalVars>>

\* @click="showLoginModal = true"
OpenLoginModal ==
  /\ PageActive
  /\ showLoginModal' = TRUE
  /\ dirty' = TRUE
  /\ UNCHANGED <<cipherVars, kmVars, storage, alert, currentUser, tossMessages, text,
                 showASEKeyModal, rendered, mountPhase, backendVars, loginVars,
                 keyModalVars>>

\* the row sendTossMessage hands to insert()
InsertPayloadUnflagged(content, user, aseKey) ==
  [content |-> content, user_id |-> user, encrypted |-> FALSE]
InsertPayloadWithKey(content, user, aseKey) ==
  [content |-> content, user_id |-> user, encrypted |-> Truthy(aseKey),
   ase_key |-> aseKey]
InsertPayload(content, user, aseKey) ==
  [content |-> content, user_id |-> user, encrypted |-> Truthy(aseKey)]

\* the row the backend stores for an insert, with the next text_id
NewRow(req, id) ==
  [text_id |-> id, content |-> req.content, user_id |-> req.user_id,
   encrypted |-> req.encrypted]

\* the message the change feed sends to a subscribed page
Payload(eventType, row) == [eventType |-> eventType, new |-> row]

(***************************************************************************)
(* Initial state: the page has just been loaded in a browser whose         *)
(* localStorage holds no key.  An earlier visit may have left a session    *)
(* and rows in the clipboard table: rows sendTossMessage wrote, in plain   *)
(* text or under a key that was stored then.                               *)
(***************************************************************************)
PriorRows ==
  {NewRow(InsertPayload(PlainContent(t), u, NULL), 1) :
      t \in {x \in AppTexts : trim(x) # <<>>}, u \in Users}
    \cup {NewRow(InsertPayload(encrypt(t, k, salt).val, u, k), 1) :
            t \in {x \in AppTexts : trim(x) # <<>>}, u \in Users,
            k \in {x \in AppKeys : validateKey(x) /\ testKey(x) /\ trim(x) = x},
            salt \in Salts}

PriorTables == {<<>>} \cup {<<r>> : r \in PriorRows}

CipherIdle ==
  /\ cp1 = <<>> /\ cp2 = <<>> /\ cs = <<>>
  /\ cphase = "idle" /\ cenv = EncryptionError /\ cres = Throw("none")

\* the page runs in the browser, with a localStorage that answers
KmIdle ==
  /\ kmClient = ProcessClient /\ kmStore = "ok"
  /\ kmOp = "none" /\ kmArg = <<>> /\ kmRes = Throw("none") /\ kmBefore = NULL

\* the page after setup, whatever the slot holds
PageInit ==
  /\ alert = "none"
  /\ currentUser = NoUser
  /\ tossMessages = <<>>
  /\ text = <<>>
  /\ showLoginModal = FALSE
  /\ showASEKeyModal = FALSE
  /\ rendered = <<>>
  /\ dirty = FALSE
  /\ mountPhase = "getUser"
  /\ authSession \in Users \cup {NoUser}
  /\ table \in PriorTables
  /\ inserts = <<>>
  /\ selects = <<>>
  /\ authReqs = <<>>
  /\ listeners = 0
  /\ events = <<>>
  /\ loginLoading = FALSE
  /\ loginError = ""
  \* LoginModal onMounted: checkASEKeyStatus() with no key stored
  /\ aseKeyStatus = "none"
  /\ clearTimers = 0
  /\ showSkipOption = FALSE
  /\ keyLoading = FALSE
  /\ keyError = ""

AppInit == storage = NULL /\ PageInit

Init == CipherIdle /\ KmIdle /\ AppInit

\* sendTossMessage with an encryption failure that falls through to the insert
sendTossMessageNoReturn ==
  /\ PageActive
  /\ InFlight < MaxInFlight
  /\ trim(text) # <<>> /\ currentUser # NoUser
  /\ LET aseKey == getKey(ProcessClient, storage) IN
     \E salt \in Salts :
       LET encrypted == encrypt(text, aseKey, salt) IN
       /\ Truthy(aseKey)
       /\ alert' = IF encrypted.ok THEN alert ELSE "encryptFailed"
       /\ inserts' = Append(inserts,
            InsertPayload(IF encrypted.ok THEN encrypted.val ELSE PlainContent(text),
                          currentUser, aseKey))
  /\ UNCHANGED <<cipherVars, kmVars, storage, appVars, authSession, table, selects,
                 authReqs, listeners, events, loginVars, keyModalVars>>

\* sendTossMessage up to its await
sendTossMessage ==
  /\ PageActive
  /\ InFlight < MaxInFlight
  /\ IF trim(text) = <<>> THEN
       UNCHANGED <<alert, showLoginModal, dirty, inserts>>
     ELSE IF currentUser = NoUser THEN
       /\ showLoginModal' = TRUE
       /\ dirty' = TRUE
       /\ UNCHANGED <<alert, inserts>>
     ELSE
       LET aseKey == getKey(ProcessClient, storage) IN
       IF Truthy(aseKey) THEN
         \E salt \in Salts :
           LET encrypted == encrypt(text, aseKey, salt) IN
           IF ~encrypted.ok THEN
             /\ alert' = "encryptFailed"
             /\ UNCHANGED <<showLoginModal, dirty, inserts>>
           ELSE
             /\ inserts' = Append(inserts, InsertPayload(encrypted.val, currentUser, aseKey))
             /\ UNCHANGED <<alert, showLoginModal, dirty>>
       ELSE
         /\ inserts' = Append(inserts, InsertPayload(PlainContent(text), currentUser, aseKey))
         /\ UNCHANGED <<alert, showLoginModal, dirty>>
  /\ UNCHANGED <<cipherVars, kmVars, storage, currentUser, tossMessages, text,
                 showASEKeyModal, rendered, mountPhase, authSession, table,
                 selects, authReqs, listeners, events, loginVars, keyModalVars>>

\* the backend runs an insert and answers; sendTossMessage resumes.  A row
\* gets the next text_id and, when the page has subscribed, the change feed
\* sends it one INSERT message; or the insert fails (network, policy) and
\* nothing is stored.
InsertDone ==
  /\ Idle
  /\ \E i \in 1..Len(inserts) :
       /\ \/ /\ Len(table) < MaxRows
             /\ LET row == NewRow(inserts[i], Len(table) + 1) IN
                /\ table' = Append(table, row)
                /\ events' = IF listeners > 0
                             THEN Append(events, Payload("INSERT", row)) ELSE events
             /\ text' = <<>>
             /\ dirty' = (text # <<>>)
             /\ UNCHANGED alert
          \/ /\ alert' = "sendFailed"
             /\ UNCHANGED <<table, events, text, dirty>>
       /\ inserts' = RemoveAt(inserts, i)
  /\ UNCHANGED <<cipherVars, kmVars, storage, currentUser, tossMessages,
                 showLoginModal, showASEKeyModal, rendered, mountPhase,
                 authSession, selects, authReqs, listeners, loginVars,
                 keyModalVars>>

\* A message of the change feed arrives; the client dispatches it to every
\* callback listenSupabaseChannel has registered.  For an INSERT each appends
\* the row with its encrypted field coerced to a boolean; for any other
\* event type the callback does nothing.
RECURSIVE Copies(_, _)
Copies(x, n) == IF n = 0 THEN <<>> ELSE <<x>> \o Copies(x, n - 1)

INSERTCallback ==
  /\ Idle
  /\ events # <<>>
  /\ LET payload == Head(events)
         newItem == [payload.new EXCEPT !.encrypted = (payload.new.encrypted = TRUE)]
     IN IF payload.eventType = "INSERT" THEN
          /\ tossMessages' = tossMessages \o Copies(newItem, listeners)
          /\ dirty' = TRUE
        ELSE UNCHANGED <<tossMessages, dirty>>
  /\ events' = Tail(events)
  /\ UNCHANGED <<cipherVars, kmVars, storage, alert, currentUser, text, showLoginModal,
                 showASEKeyModal, rendered, mountPhase, authSession, table,
                 inserts, selects, authReqs, listeners, loginVars, keyModalVars>>

\* the backend runs a select: the rows of the user, in creation order
RowsOf(user) == SelectSeq(table, LAMBDA r : r.user_id = user)

SelectServe ==
  /\ Idle
  /\ \E i \in 1..Len(selects) :
       /\ ~selects[i].served
       /\ selects' = [selects EXCEPT ![i].served = TRUE,
                                     ![i].data = RowsOf(selects[i].user_id)]
  /\ UNCHANGED <<cipherVars, kmVars, storage, alert, appVars, authSession, table,
                 inserts, authReqs, listeners, events, loginVars, keyModalVars>>

\* the response of a select arrives and the awaiting function resumes:
\* handleLoginSuccess and onMounted assign the list and call
\* listenSupabaseChannel, which reads currentUser.value.id and so throws when
\* the user has logged out meanwhile; handleASEKeySuccess assigns the list.
SelectDone ==
  /\ Idle
  /\ \E i \in 1..Len(selects) :
       /\ selects[i].served
       /\ tossMessages' = selects[i].data
       /\ listeners' = IF selects[i].cont \in {"login", "mount"} /\ currentUser # NoUser
                       THEN listeners + 1 ELSE listeners
       /\ selects' = RemoveAt(selects, i)
  /\ dirty' = TRUE
  /\ UNCHANGED <<cipherVars, kmVars, storage, alert, currentUser, text, showLoginModal,
                 showASEKeyModal, rendered, mountPhase, authSession, table,
                 inserts, authReqs, events, loginVars, keyModalVars>>

\* onMounted: supabase.auth.getUser() answers
MountGetUserDone ==
  /\ Idle
  /\ mountPhase = "getUser"
  /\ mountPhase' = "done"
  /\ IF authSession = NoUser THEN UNCHANGED <<currentUser, selects, dirty>>
     ELSE /\ currentUser' = authSession
          /\ selects' = Append(selects, SelectRequest("mount", authSession))
          /\ dirty' = TRUE
  /\ UNCHANGED <<cipherVars, kmVars, storage, alert, tossMessages, text, showLoginModal,
                 showASEKeyModal, rendered, authSession, table, inserts,
                 authReqs, listeners, events, loginVars, keyModalVars>>

\* the copy icon of an entry is clicked: copyToClipboard.  The text goes to
\* the system clipboard, which the page never reads and which is no part of
\* its state; writeText resolves, or rejects when the browser refuses the
\* write (no permission, document not focused), and the alert tells which.
copyToClipboard ==
  /\ PageActive
  /\ \E i \in 1..Len(tossMessages) :
       LET contentToCopy ==
             IF tossMessages[i].encrypted
             THEN decryptContent(tossMessages[i].content, TRUE, storage)
             ELSE Return(Verbatim(tossMessages[i].content))
       IN \/ contentToCopy.ok /\ alert' = "copied"
          \/ alert' = "copyFailed"
  /\ UNCHANGED <<cipherVars, kmVars, storage, appVars, backendVars, loginVars,
                 keyModalVars>>

\* handleLogout
appHandleLogout ==
  /\ currentUser' = NoUser
  /\ tossMessages' = <<>>

(***************************************************************************)
(* LoginModal  (src/components/LoginModal.vue, second script block; the    *)
(* same text as src/unnamed/part_002)                                      *)
(***************************************************************************)
\* resetForm
loginResetForm ==
  /\ loginError' = ""
  /\ loginLoading' = FALSE

\* the message validateForm leaves, "" when the form is valid (login mode)
validateForm(e, p) ==
  IF e = "" THEN "enter email"
  ELSE IF ~EmailMatchesPattern(e) THEN "invalid email"
  ELSE IF p = "" THEN "enter password"
  ELSE IF PasswordLength(p) < 6 THEN "password too short"
  ELSE ""

\* the overlay or the close button of the login dialog: close()
loginClose ==
  /\ Idle
  /\ showLoginModal
  /\ showLoginModal' = FALSE
  /\ loginResetForm
  /\ dirty' = TRUE
  /\ UNCHANGED <<cipherVars, kmVars, storage, alert, currentUser, tossMessages, text,
                 showASEKeyModal, rendered, mountPhase, backendVars,
                 aseKeyStatus, clearTimers, keyModalVars>>

\* the form is filled in and submitted: handleLogin up to its await, while
\* fewer than cap callbacks are registered or about to be
handleLoginUnder(cap) ==
  /\ Idle
  /\ showLoginModal /\ currentUser = NoUser /\ ~loginLoading
  /\ InFlight < MaxInFlight
  /\ listeners + Len(selects) + (IF mountPhase = "getUser" THEN 1 ELSE 0) < cap
  /\ \E e \in Emails, p \in Passwords :
       /\ IF validateForm(e, p) # "" THEN
            /\ loginError' = validateForm(e, p)
            /\ UNCHANGED <<loginLoading, authReqs>>
          ELSE
            /\ loginLoading' = TRUE
            /\ loginError' = ""
            /\ authReqs' = Append(authReqs, [op |-> "signIn", email |-> e, password |-> p])
  /\ UNCHANGED <<cipherVars, kmVars, storage, alert, appVars, authSession, table,
                 inserts, selects, listeners, events, aseKeyStatus,
                 clearTimers, keyModalVars>>

handleLogin == handleLoginUnder(MaxListeners)

\* ASEKeyModal's resetForm
keyResetForm ==
  /\ keyError' = ""
  /\ keyLoading' = FALSE
  /\ showSkipOption' = FALSE

\* signInWithPassword answers and handleLogin resumes.  On success:
\* emit('loginSuccess') runs handleLoginSuccess up to its await, close(),
\* and without a stored key emit('showASEKeyModal') opens the key dialog,
\* whose watch(isOpen) resets its form and looks for an existing key.
handleLoginDone ==
  /\ Idle
  /\ \E i \in 1..Len(authReqs) :
       /\ authReqs[i].op = "signIn"
       /\ authReqs' = RemoveAt(authReqs, i)
       /\ LET user == AccountOf(authReqs[i].email, authReqs[i].password) IN
          IF user = NoUser THEN
            /\ loginError' = "Invalid login credentials"
            /\ loginLoading' = FALSE
            /\ UNCHANGED <<authSession, currentUser, selects, showLoginModal,
                           showASEKeyModal, keyModalVars, dirty>>
          ELSE
            /\ authSession' = user
            /\ currentUser' = user
            /\ selects' = Append(selects, SelectRequest("login", user))
            /\ showLoginModal' = FALSE
            /\ loginResetForm
            /\ IF ~hasKey(ProcessClient, storage) THEN
                 /\ showASEKeyModal' = TRUE
                 /\ LET existingKey == getKey(ProcessClient, storage) IN
                    IF Truthy(existingKey) THEN
                      /\ showSkipOption' = TRUE
                      /\ keyError' = ""
                      /\ keyLoading' = FALSE
                    ELSE keyResetForm
               ELSE UNCHANGED <<showASEKeyModal, keyModalVars>>
            /\ dirty' = TRUE
  /\ UNCHANGED <<cipherVars, kmVars, storage, alert, tossMessages, text, rendered,
                 mountPhase, table, inserts, listeners, events,
                 aseKeyStatus, clearTimers>>

\* the logout button: handleLogout up to its await
loginHandleLogout ==
  /\ Idle
  /\ showLoginModal /\ currentUser # NoUser /\ ~loginLoading
  /\ InFlight < MaxInFlight
  /\ loginLoading' = TRUE
  /\ loginError' = ""
  /\ authReqs' = Append(authReqs, [op |-> "signOut", email |-> "", password |-> ""])
  /\ UNCHANGED <<cipherVars, kmVars, storage, alert, appVars, authSession, table,
                 inserts, selects, listeners, events,
                 aseKeyStatus, clearTimers, keyModalVars>>

\* signOut answers: emit('logout') runs app.vue's handleLogout, then close()
loginHandleLogoutDone ==
  /\ Idle
  /\ \E i \in 1..Len(authReqs) :
       /\ authReqs[i].op = "signOut"
       /\ authReqs' = RemoveAt(authReqs, i)
  /\ authSession' = NoUser
  /\ appHandleLogout
  /\ showLoginModal' = FALSE
  /\ loginResetForm
  /\ dirty' = TRUE
  /\ UNCHANGED <<cipherVars, kmVars, storage, alert, text, showASEKeyModal, rendered,
                 mountPhase, table, inserts, selects, listeners, events,
                 aseKeyStatus, clearTimers, keyModalVars>>

\* checkASEKeyStatus: the status and the field it leaves for a slot
StatusOfUnchecked(slot) ==
  LET key == getKey(ProcessClient, slot) IN
  IF Truthy(key) THEN "valid" ELSE "none"
StatusOf(slot) ==
  LET key == getKey(ProcessClient, slot) IN
  IF Truthy(key) THEN (IF isKeyValid(ProcessClient, slot) THEN "valid" ELSE "invalid")
  ELSE "none"

\* the key field of the account view is filled in and "save" is clicked
saveASEToken ==
  /\ Idle
  /\ showLoginModal /\ currentUser # NoUser
  /\ clearTimers < MaxInFlight
  /\ \E typed \in AppKeys :
       LET key == trim(typed) IN
       IF key = <<>> THEN
         /\ loginError' = "enter key"
         /\ UNCHANGED <<storage, aseKeyStatus, clearTimers>>
       ELSE IF Len(key) < MinKeyLength THEN
         /\ loginError' = "key too short"
         /\ UNCHANGED <<storage, aseKeyStatus, clearTimers>>
       ELSE IF isKeyValid(ProcessClient, storage) /\ key = getKey(ProcessClient, storage) THEN
         /\ loginError' = "key unchanged"
         /\ UNCHANGED <<storage, aseKeyStatus, clearTimers>>
       ELSE
         /\ storage' = setKey(ProcessClient, storage, key)
         /\ aseKeyStatus' = StatusOf(storage')
         /\ IF aseKeyStatus' = "valid" THEN
              /\ loginError' = "key saved"
              /\ clearTimers' = clearTimers + 1
            ELSE
              /\ loginError' = "key not saved, check its format"
              /\ UNCHANGED clearTimers
  /\ UNCHANGED <<cipherVars, kmVars, alert, appVars, backendVars, loginLoading,
                 keyModalVars>>

\* removeASEToken without its confirm()
removeASETokenUnasked ==
  /\ Idle
  /\ showLoginModal /\ currentUser # NoUser
  /\ aseKeyStatus # "none"
  /\ storage' = removeKey(ProcessClient, storage)
  /\ UNCHANGED <<cipherVars, kmVars, alert, appVars, backendVars, loginVars,
                 keyModalVars>>

\* the "remove" button, shown while the status is not none; confirm() asks
removeASEToken ==
  /\ Idle
  /\ showLoginModal /\ currentUser # NoUser
  /\ aseKeyStatus # "none"
  /\ clearTimers < MaxInFlight
  /\ \E confirmed \in BOOLEAN :
       IF confirmed THEN
         /\ storage' = removeKey(ProcessClient, storage)
         /\ aseKeyStatus' = "none"
         /\ loginError' = "key removed"
         /\ clearTimers' = clearTimers + 1
       ELSE UNCHANGED <<storage, aseKeyStatus, loginError, clearTimers>>
  /\ UNCHANGED <<cipherVars, kmVars, alert, appVars, backendVars, loginLoading,
                 keyModalVars>>

\* a setTimeout(() => { errorMessage.value = '' }, 2000) fires
clearMessage ==
  /\ Idle
  /\ clearTimers > 0
  /\ clearTimers' = clearTimers - 1
  /\ loginError' = ""
  /\ UNCHANGED <<cipherVars, kmVars, storage, alert, appVars, backendVars,
                 loginLoading, aseKeyStatus, keyModalVars>>

(***************************************************************************)
(* ASEKeyModal  (src/components/ASEKeyModal.vue)                           *)
(***************************************************************************)
\* the component's validateKey without its call of CryptoUtil.validateKey
keyModalValidateKeyNoLength(typed, confirmTyped, skipOption) ==
  LET key == trim(typed) IN
  IF key = <<>> THEN "enter key"
  ELSE IF ~skipOption /\ key # confirmTyped THEN "keys differ"
  ELSE ""

\* the message the component's validateKey leaves, "" when the input passes
keyModalValidateKey(typed, confirmTyped, skipOption) ==
  LET key == trim(typed) IN
  IF key = <<>> THEN "enter key"
  ELSE IF ~validateKey(key) THEN "key too short"
  ELSE IF ~skipOption /\ key # confirmTyped THEN "keys differ"
  ELSE ""

\* app.vue's handleASEKeySuccess up to its await
handleASEKeySuccess ==
  /\ showASEKeyModal' = FALSE
  /\ IF currentUser # NoUser THEN
       /\ tossMessages' = <<>>
       /\ selects' = Append(selects, SelectRequest("reload", currentUser))
     ELSE UNCHANGED <<tossMessages, selects>>

\* saveKey without its self-test
saveKeyUntested ==
  /\ Idle
  /\ showASEKeyModal /\ ~keyLoading
  /\ InFlight < MaxInFlight
  /\ \E typed \in AppKeys, confirmTyped \in AppKeys :
       IF keyModalValidateKey(typed, confirmTyped, showSkipOption) # "" THEN
         /\ keyError' = keyModalValidateKey(typed, confirmTyped, showSkipOption)
         /\ UNCHANGED <<storage, showASEKeyModal, tossMessages, selects, dirty,
                        showSkipOption, keyLoading>>
       ELSE
         /\ storage' = setKey(ProcessClient, storage, trim(typed))
         /\ handleASEKeySuccess
         /\ keyResetForm
         /\ dirty' = TRUE
  /\ UNCHANGED <<cipherVars, kmVars, alert, currentUser, text, showLoginModal, rendered,
                 mountPhase, authSession, table, inserts, authReqs, listeners,
                 events, loginVars>>

\* both fields are filled in and "save" is clicked: saveKey
saveKey ==
  /\ Idle
  /\ showASEKeyModal /\ ~keyLoading
  /\ InFlight < MaxInFlight
  /\ \E typed \in AppKeys, confirmTyped \in AppKeys :
       IF keyModalValidateKey(typed, confirmTyped, showSkipOption) # "" THEN
         /\ keyError' = keyModalValidateKey(typed, confirmTyped, showSkipOption)
         /\ UNCHANGED <<storage, showASEKeyModal, tossMessages, selects, dirty,
                        showSkipOption, keyLoading>>
       ELSE IF ~showSkipOption /\ ~testKey(typed) THEN
         /\ keyError' = "key test failed"
         /\ UNCHANGED <<storage, showASEKeyModal, tossMessages, selects, dirty,
                        showSkipOption, keyLoading>>
       ELSE
         /\ storage' = setKey(ProcessClient, storage, trim(typed))
         /\ handleASEKeySuccess
         /\ keyResetForm
         /\ dirty' = TRUE
  /\ UNCHANGED <<cipherVars, kmVars, alert, currentUser, text, showLoginModal, rendered,
                 mountPhase, authSession, table, inserts, authReqs, listeners,
                 events, loginVars>>

\* the overlay or the close button of the key dialog: close(); the skip
\* button, where it is shown, calls close() as well
keyModalClose ==
  /\ Idle
  /\ showASEKeyModal /\ ~keyLoading
  /\ showASEKeyModal' = FALSE
  /\ keyResetForm
  /\ dirty' = TRUE
  /\ UNCHANGED <<cipherVars, kmVars, storage, alert, currentUser, tossMessages, text,
                 showLoginModal, rendered, mountPhase, backendVars, loginVars>>

(***************************************************************************)
(* The application.                                                        *)
(***************************************************************************)
Next ==
  \/ Render
  \/ DismissAlert
  \/ TypeText
  \/ OpenLoginModal
  \/ sendTossMessage
  \/ InsertDone
  \/ copyToClipboard
  \/ INSERTCallback
  \/ SelectServe
  \/ SelectDone
  \/ MountGetUserDone
  \/ loginClose
  \/ handleLogin
  \/ handleLoginDone
  \/ loginHandleLogout
  \/ loginHandleLogoutDone
  \/ saveASEToken
  \/ removeASEToken
  \/ clearMessage
  \/ saveKey
  \/ keyModalClose

Spec == Init /\ [][Next]_vars

(***************************************************************************)
(* The change feed specification: the page of a user who reads, logs in    *)
(* and out and sets up a key while another device of the same account,     *)
(* running the same page, writes to the clipboard table.                   *)
(***************************************************************************)
\* another device sends a message: the backend stores the row and the feed
\* sends an INSERT message to a subscribed page
RemoteInsert ==
  /\ Idle
  /\ Len(table) < MaxRows
  /\ \E r \in PriorRows :
       LET row == [r EXCEPT !.text_id = Len(table) + 1] IN
       /\ table' = Append(table, row)
       /\ events' = IF listeners > 0
                    THEN Append(events, Payload("INSERT", row)) ELSE events
  /\ UNCHANGED <<cipherVars, kmVars, storage, alert, appVars, authSession, inserts,
                 selects, authReqs, listeners, loginVars, keyModalVars>>

\* a row is rewritten with the values it has: the feed sends an UPDATE
\* message to a subscribed page (the subscription asks for event: '*')
RemoteUpdate ==
  /\ Idle
  /\ listeners > 0
  /\ Len(SelectSeq(events, LAMBDA e : e.eventType # "INSERT")) < MaxEvents
  /\ \E i \in 1..Len(table) : events' = Append(events, Payload("UPDATE", table[i]))
  /\ UNCHANGED <<cipherVars, kmVars, storage, alert, appVars, authSession, table,
                 inserts, selects, authReqs, listeners, loginVars, keyModalVars>>

handleLoginAgain == handleLoginUnder(MaxFeedListeners)

FeedNext ==
  \/ Render
  \/ OpenLoginModal
  \/ MountGetUserDone
  \/ SelectServe
  \/ SelectDone
  \/ INSERTCallback
  \/ RemoteInsert
  \/ RemoteUpdate
  \/ loginClose
  \/ handleLoginAgain
  \/ handleLoginDone
  \/ loginHandleLogout
  \/ loginHandleLogoutDone
  \/ saveKey
  \/ keyModalClose

SpecFeed == Init /\ [][FeedNext]_vars

(***************************************************************************)
(* The key dialog specification: ASEKeyModal as a component, opened by its *)
(* parent whatever the slot holds (a key saved in the account modal, on an *)
(* earlier visit or by another tab), on the page of a logged-in user.      *)
(***************************************************************************)
\* what the slot can hold: nothing, or a string one of the dialogs stored
StoredKeys == {NULL} \cup {trim(k) : k \in {x \in AppKeys : validateKey(x)}}

\* watch(() => props.isOpen) for a dialog that opens
keyWatchOpen ==
  LET existingKey == getKey(ProcessClient, storage) IN
  IF Truthy(existingKey) THEN
    /\ showSkipOption' = TRUE
    /\ keyError' = ""
    /\ keyLoading' = FALSE
  ELSE keyResetForm

KeyModalInit ==
  /\ CipherIdle /\ KmIdle
  /\ storage \in StoredKeys
  /\ alert = "none"
  /\ currentUser \in Users
  /\ authSession = currentUser
  /\ table \in PriorTables
  /\ tossMessages = RowsOf(currentUser)
  /\ text = <<>>
  /\ showLoginModal = FALSE
  /\ showASEKeyModal = TRUE
  /\ rendered = <<>>
  /\ dirty = TRUE
  /\ mountPhase = "done"
  /\ inserts = <<>> /\ selects = <<>> /\ authReqs = <<>>
  /\ listeners = 1
  /\ events = <<>>
  /\ loginLoading = FALSE
  /\ loginError = ""
  /\ aseKeyStatus = StatusOf(storage)
  /\ clearTimers = 0
  /\ showSkipOption = Truthy(getKey(ProcessClient, storage))
  /\ keyLoading = FALSE
  /\ keyError = ""

\* the parent sets isOpen (showASEKeyModalHandler) and the watch runs
KeyModalOpen ==
  /\ Idle
  /\ ~showASEKeyModal /\ ~showLoginModal
  /\ showASEKeyModal' = TRUE
  /\ keyWatchOpen
  /\ dirty' = TRUE
  /\ UNCHANGED <<cipherVars, kmVars, storage, alert, currentUser, tossMessages, text,
                 showLoginModal, rendered, mountPhase, backendVars, loginVars>>

\* the skip button, rendered while showSkipOption: skipSetup
skipSetup ==
  /\ Idle
  /\ showASEKeyModal /\ ~keyLoading
  /\ showSkipOption
  /\ showASEKeyModal' = FALSE
  /\ keyResetForm
  /\ dirty' = TRUE
  /\ UNCHANGED <<cipherVars, kmVars, storage, alert, currentUser, tossMessages, text,
                 showLoginModal, rendered, mountPhase, backendVars, loginVars>>

KeyModalNext ==
  \/ Render
  \/ KeyModalOpen
  \/ saveKey
  \/ skipSetup
  \/ keyModalClose
  \/ SelectServe
  \/ SelectDone

SpecKeyModal == KeyModalInit /\ [][KeyModalNext]_vars

(***************************************************************************)
(* The login specification: the page loaded in a browser whose slot holds  *)
(* nothing or a key stored on an earlier visit, and a user who signs in    *)
(* and out.                                                                *)
(***************************************************************************)
LoginInit ==
  /\ CipherIdle /\ KmIdle
  /\ storage \in StoredKeys
  /\ alert = "none"
  /\ currentUser = NoUser
  /\ tossMessages = <<>>
  /\ text = <<>>
  /\ showLoginModal = FALSE
  /\ showASEKeyModal = FALSE
  /\ rendered = <<>>
  /\ dirty = FALSE
  /\ mountPhase = "getUser"
  /\ authSession \in Users \cup {NoUser}
  /\ table \in PriorTables
  /\ inserts = <<>> /\ selects = <<>> /\ authReqs = <<>>
  /\ listeners = 0
  /\ events = <<>>
  /\ loginLoading = FALSE
  /\ loginError = ""
  \* LoginModal onMounted: checkASEKeyStatus()
  /\ aseKeyStatus = StatusOf(storage)
  /\ clearTimers = 0
  /\ showSkipOption = FALSE
  /\ keyLoading = FALSE
  /\ keyError = ""

LoginNext ==
  \/ Render
  \/ OpenLoginModal
  \/ MountGetUserDone
  \/ SelectServe
  \/ SelectDone
  \/ loginClose
  \/ handleLoginAgain
  \/ handleLoginDone
  \/ loginHandleLogout
  \/ loginHandleLogoutDone
  \/ saveKey
  \/ keyModalClose

SpecLogin == LoginInit /\ [][LoginNext]_vars

(***************************************************************************)
(* The cipher specification: one experiment decrypt(encrypt(s, p1), p2)    *)
(* for inputs drawn from bounded sets.                                     *)
(***************************************************************************)
KeyPool ==
  {Rep(c, n) : c \in {"a", "b"}, n \in (MinKeyLength - 1)..MaxKeyLen}
    \cup {<<" ">> \o Rep("a", MinKeyLength), Rep(" ", MinKeyLength), <<>>,
          Rep("a", MinKeyLength - 1) \o <<LoneSurrogate>>}

TextPool == UNION {[1..n -> Char] : n \in 0..MaxTextLen}

NoResult == Throw("none")

CipherInit ==
  /\ AppInit /\ KmIdle /\ authSession = NoUser /\ table = <<>>
  /\ cp1 \in KeyPool
  /\ cp2 \in KeyPool
  /\ cs \in TextPool
  /\ cphase = "in"
  /\ cenv = EncryptionError
  /\ cres = NoResult

CipherEncrypt ==
  /\ cphase = "in"
  /\ \E salt \in Salts : cenv' = encrypt(cs, cp1, salt)
  /\ cphase' = "enc"
  /\ UNCHANGED <<cp1, cp2, cs, cres>>
  /\ UNCHANGED <<kmVars, storage, alert, appVars, backendVars, loginVars,
                 keyModalVars>>

\* decrypt(encrypt(s, p1), p2): an exception of encrypt is the exception of
\* the whole expression
CipherDecrypt ==
  /\ cphase = "enc"
  /\ cres' = IF cenv.ok THEN decrypt(cenv.val, cp2) ELSE Throw("EncryptionError")
  /\ cphase' = "dec"
  /\ UNCHANGED <<cp1, cp2, cs, cenv>>
  /\ UNCHANGED <<kmVars, storage, alert, appVars, backendVars, loginVars,
                 keyModalVars>>

CipherNext == CipherEncrypt \/ CipherDecrypt

SpecCipher == CipherInit /\ [][CipherNext]_vars

(***************************************************************************)
(* The key manager specification: CryptoUtil.validateKey / testKey,        *)
(* ASEKeyManager and the account view's checkASEKeyStatus called one at a  *)
(* time by any caller, with any string, in a client or a non-client        *)
(* context, over a localStorage that answers or refuses.                   *)
(***************************************************************************)
\* strings a caller hands to setKey, validateKey and testKey
KmKeys ==
  KeyPool \cup {<<" ">> \o Rep("a", MinKeyLength - 1) \o <<" ">>,
                Rep("a", MinKeyLength) \o <<" ">>,
                Rep("a", 3) \o <<" ">> \o Rep("a", MinKeyLength - 4),
                <<" ">>}

\* how the browser's localStorage answers: "ok"; "denied" when site data is
\* blocked (every access throws SecurityError); "full" when the quota is
\* used up (setItem throws QuotaExceededError)
StoreModes == {"ok", "denied", "full"}
LocalStorageThrows(mode, writes) ==
  mode = "denied" \/ (writes /\ mode = "full")
StorageError == Throw("DOMException")
Undefined == <<"undefined">>
\* a boolean or a status handed back to the caller, as a value of the result
Boolean(b) == IF b THEN <<"true">> ELSE <<"false">>

KmInit ==
  /\ PageInit /\ CipherIdle /\ authSession = NoUser /\ table = <<>>
  /\ storage \in {NULL} \cup KmKeys
  /\ kmClient \in BOOLEAN
  /\ kmStore \in StoreModes
  /\ kmOp = "none" /\ kmArg = <<>> /\ kmRes = Throw("none") /\ kmBefore = NULL

KmFrame ==
  /\ kmBefore' = storage
  /\ UNCHANGED <<cipherVars, kmClient, kmStore, alert, appVars, backendVars,
                 loginVars, keyModalVars>>

\* ASEKeyManager.getKey()
KmGetKey ==
  /\ kmOp' = "getKey" /\ kmArg' = <<>>
  /\ kmRes' = IF kmClient /\ LocalStorageThrows(kmStore, FALSE) THEN StorageError
              ELSE Return(getKey(kmClient, storage))
  /\ UNCHANGED storage /\ KmFrame

\* ASEKeyManager.setKey(key)
KmSetKey ==
  /\ \E key \in KmKeys :
       /\ kmOp' = "setKey" /\ kmArg' = key
       /\ IF kmClient /\ LocalStorageThrows(kmStore, TRUE)
          THEN kmRes' = StorageError /\ UNCHANGED storage
          ELSE kmRes' = Return(Undefined) /\ storage' = setKey(kmClient, storage, key)
  /\ KmFrame

\* ASEKeyManager.removeKey()
KmRemoveKey ==
  /\ kmOp' = "removeKey" /\ kmArg' = <<>>
  /\ IF kmClient /\ LocalStorageThrows(kmStore, FALSE)
     THEN kmRes' = StorageError /\ UNCHANGED storage
     ELSE kmRes' = Return(Undefined) /\ storage' = removeKey(kmClient, storage)
  /\ KmFrame

\* ASEKeyManager.hasKey()
KmHasKey ==
  /\ kmOp' = "hasKey" /\ kmArg' = <<>>
  /\ kmRes' = IF kmClient /\ LocalStorageThrows(kmStore, FALSE) THEN StorageError
              ELSE Return(Boolean(hasKey(kmClient, storage)))
  /\ UNCHANGED storage /\ KmFrame

\* ASEKeyManager.isKeyValid()
KmIsKeyValid ==
  /\ kmOp' = "isKeyValid" /\ kmArg' = <<>>
  /\ kmRes' = IF kmClient /\ LocalStorageThrows(kmStore, FALSE) THEN StorageError
              ELSE Return(Boolean(isKeyValid(kmClient, storage)))
  /\ UNCHANGED storage /\ KmFrame

\* CryptoUtil.validateKey(keyString)
KmValidateKey ==
  /\ \E key \in KmKeys :
       /\ kmOp' = "validateKey" /\ kmArg' = key
       /\ kmRes' = Return(Boolean(validateKey(key)))
  /\ UNCHANGED storage /\ KmFrame

\* CryptoUtil.testKey(keyString)
KmTestKey ==
  /\ \E key \in KmKeys :
       /\ kmOp' = "testKey" /\ kmArg' = key
       /\ kmRes' = Return(Boolean(testKey(key)))
  /\ UNCHANGED storage /\ KmFrame

\* LoginModal's checkASEKeyStatus (called from onMounted, so in the browser):
\* its catch turns an exception of the key manager into 'invalid'
KmCheckStatus ==
  /\ kmClient = ProcessClient
  /\ kmOp' = "checkASEKeyStatus" /\ kmArg' = <<>>
  /\ kmRes' = IF LocalStorageThrows(kmStore, FALSE) THEN Return(<<"invalid">>)
              ELSE Return(<<StatusOf(storage)>>)
  /\ UNCHANGED storage /\ KmFrame

KmNext ==
  \/ KmGetKey \/ KmSetKey \/ KmRemoveKey \/ KmHasKey \/ KmIsKeyValid
  \/ KmValidateKey \/ KmTestKey \/ KmCheckStatus

SpecKeyManager == KmInit /\ [][KmNext]_vars

(***************************************************************************)
(* Claims about the cipher.                                                *)
(***************************************************************************)
\* C1 (as stated): for every passphrase p accepted by validateKey and every
\* string s, the empty string included, decrypt(encrypt(s, p), p) returns
\* exactly s.
C1_RoundTripEveryString ==
  (cphase = "dec" /\ cp1 = cp2 /\ validateKey(cp1))
    => (cres.ok /\ cres.val = cs)

\* C1 (amended): for every passphrase p accepted by validateKey and every
\* non-empty string s, neither holding an unpaired surrogate,
\* decrypt(encrypt(s, p), p) returns exactly s; for the empty string s the
\* decryption throws.
C1_RoundTripNonEmpty ==
  (cphase = "dec" /\ cp1 = cp2 /\ validateKey(cp1)
     /\ IsWellFormed(cp1) /\ IsWellFormed(cs))
    => IF cs = <<>> THEN ~cres.ok ELSE (cres.ok /\ cres.val = cs)

C1_Witness ==
  /\ cphase = "dec" /\ cp1 = cp2 /\ validateKey(cp1)
  /\ IsWellFormed(cp1) /\ IsWellFormed(cs) /\ Len(cs) = MaxTextLen
  /\ cres.ok /\ cres.val = cs

C5_WrongKeyAlwaysThrows ==
  (cphase = "dec" /\ cenv.ok /\ cp1 # cp2) => ~cres.ok

(***************************************************************************)
(* Claims about the application.                                           *)
(***************************************************************************)
\* every value the ASEToken slot can take in this model
Slots == {NULL} \cup {trim(k) : k \in AppKeys}

\* a request or a row whose content is a typed string equal to a passphrase
\* or to the key derived from it (an envelope shows neither)
CarriesKey(content) ==
  /\ ~content.env
  /\ \E k \in Slots \ {NULL} :
       \/ content.str = k
       \/ generateKey(k).ok /\ content.str = generateKey(k).val

Coherent(r) == r.encrypted <=> r.content.env

\* a step of sendTossMessage that sends an insert
SendsInsert == sendTossMessage /\ Len(inserts') = Len(inserts) + 1

\* C2: a row sendTossMessage inserts has encrypted = true and content =
\* encrypt(text, key) when getKey() returned a key at send time, and
\* encrypted = false with the typed text as content when it returned null;
\* so in every row, pending or persisted, the flag is true exactly when the
\* content is an envelope, also when the stored key changes during the await.
C2_FlagMatchesContent ==
  /\ [](/\ \A i \in 1..Len(inserts) : Coherent(inserts[i])
        /\ \A i \in 1..Len(table) : Coherent(table[i]))
  /\ [][SendsInsert =>
          LET sent == inserts'[Len(inserts')]
              key == getKey(ProcessClient, storage)
          IN IF key # NULL
             THEN /\ sent.encrypted = TRUE
                  /\ \E salt \in Salts : encrypt(text, key, salt).ok
                                         /\ sent.content = encrypt(text, key, salt).val
             ELSE /\ sent.encrypted = FALSE
                  /\ sent.content = PlainContent(text)]_vars

\* an encrypted insert is awaited while the key it used is no longer stored
C2_Witness ==
  /\ inserts # <<>> /\ inserts[1].encrypted /\ inserts[1].content.env
  /\ storage # NULL /\ generateKey(storage).ok
  /\ inserts[1].content.key # generateKey(storage).val

\* what the claim C3 says decryptContent / decryptTextContent return
C3_Expected(content, isEncrypted, slot) ==
  IF ~isEncrypted THEN Verbatim(content)
  ELSE IF slot = NULL THEN KeyRequiredPlaceholder
  ELSE IF ~decrypt(content, slot).ok THEN DecryptFailedPlaceholder
  ELSE decrypt(content, slot).val

C6_KeyNeverSent ==
  /\ \A i \in 1..Len(inserts) :
       /\ DOMAIN inserts[i] = {"content", "user_id", "encrypted"}
       /\ ~CarriesKey(inserts[i].content)
       /\ inserts[i].user_id \in Users
  /\ \A i \in 1..Len(table) :
       /\ DOMAIN table[i] = {"text_id", "content", "user_id", "encrypted"}
       /\ ~CarriesKey(table[i].content)
  /\ \A i \in 1..Len(selects) : selects[i].user_id \in Users
  /\ \A i \in 1..Len(authReqs) :
       authReqs[i].email \in Emails /\ authReqs[i].password \in Passwords

\* an insert encrypted under the stored key is on its way to the backend
C6_Witness ==
  /\ inserts # <<>> /\ inserts[1].content.env
  /\ storage # NULL /\ generateKey(storage).ok
  /\ inserts[1].content.key = generateKey(storage).val

\* sendTossMessage reaches CryptoUtil.encrypt and encrypt throws
EncryptThrowsInSend ==
  /\ trim(text) # <<>> /\ currentUser # NoUser
  /\ Truthy(getKey(ProcessClient, storage))
  /\ \A salt \in Salts : ~encrypt(text, getKey(ProcessClient, storage), salt).ok

\* C7: when encrypt throws inside sendTossMessage no insert is sent and no
\* row is stored, the user is told that encryption failed, the typed text
\* stays in the input and nothing else of the page changes.
C7_EncryptFailureBlocksSend ==
  [][(sendTossMessage /\ EncryptThrowsInSend) =>
       /\ inserts' = inserts /\ table' = table /\ events' = events
       /\ alert' = "encryptFailed"
       /\ text' = text
       /\ tossMessages' = tossMessages]_vars

C7_Witness ==
  /\ alert = "encryptFailed" /\ EncryptThrowsInSend
  /\ inserts = <<>> /\ text # <<>>

\* entry i of the list cannot be decrypted under the stored key
FailsToDecrypt(i) ==
  /\ tossMessages[i].encrypted
  /\ Truthy(storage)
  /\ ~decrypt(tossMessages[i].content, storage).ok

\* C8: a decryption failure on one entry changes nothing but that entry's
\* rendered text: the entry shows the placeholder, every other entry is
\* rendered as it is without the failure, and the message list, the stored
\* key, the current user, the modal state and the rest are left unchanged.
C8_FailureIsLocal ==
  [][(Render /\ \E i \in 1..Len(tossMessages) : FailsToDecrypt(i)) =>
       /\ Len(rendered') = Len(tossMessages)
       /\ \A i \in 1..Len(tossMessages) :
            IF FailsToDecrypt(i) THEN rendered'[i] = DecryptFailedPlaceholder
            ELSE rendered'[i] = C3_Expected(tossMessages[i].content,
                                            tossMessages[i].encrypted, storage)
       /\ UNCHANGED <<storage, alert, currentUser, tossMessages, text,
                      showLoginModal, showASEKeyModal, mountPhase, backendVars,
                      loginVars, keyModalVars>>]_vars

\* a failed entry is on screen next to an entry that shows its text
C8_Witness ==
  /\ ~dirty /\ Len(rendered) = Len(tossMessages)
  /\ \E i, j \in 1..Len(tossMessages) :
       /\ FailsToDecrypt(i) /\ rendered[i] = DecryptFailedPlaceholder
       /\ ~FailsToDecrypt(j) /\ rendered[j] = <<"a">>

\* entry i was encrypted under a passphrase other than the valid one stored
UnderOtherKey(i) ==
  /\ tossMessages[i].encrypted /\ tossMessages[i].content.env
  /\ Truthy(storage) /\ validateKey(storage)
  /\ \A k \in Slots \ {NULL} :
       (generateKey(k).ok /\ generateKey(k).val = tossMessages[i].content.key)
         => k # storage

\* C9: after entries were sent under passphrase p1 and the key was rotated
\* to another valid passphrase p2, rendering each of those entries yields
\* the decryption-failed placeholder, never text presented as plaintext.
C9_RotatedKeyShowsFailure ==
  [][Render =>
       \A i \in 1..Len(tossMessages) :
         UnderOtherKey(i) =>
           /\ Len(rendered') = Len(tossMessages)
           /\ rendered'[i] = DecryptFailedPlaceholder]_vars

\* C10: while no key is stored (after removeKey and until the next setKey),
\* every entry whose encrypted flag is true renders as the key-required
\* placeholder, whatever key it was encrypted under.
C10_NoKeyShowsKeyRequired ==
  [][(Render /\ storage = NULL) =>
       /\ Len(rendered') = Len(tossMessages)
       /\ \A i \in 1..Len(tossMessages) :
            tossMessages[i].encrypted => rendered'[i] = KeyRequiredPlaceholder]_vars

\* a row sent in this visit under a key is on screen after the key's removal
C10_Witness ==
  /\ ~dirty /\ storage = NULL /\ Len(rendered) = Len(tossMessages)
  /\ \E i \in 1..Len(tossMessages) :
       /\ tossMessages[i].encrypted /\ tossMessages[i].text_id > 1
       /\ rendered[i] = KeyRequiredPlaceholder

(***************************************************************************)
(* Claims about the key manager.                                           *)
(***************************************************************************)
\* entry i of the list was encrypted under the passphrase now stored
UnderStoredKey(i) ==
  /\ tossMessages[i].encrypted /\ tossMessages[i].content.env
  /\ storage # NULL /\ generateKey(storage).ok
  /\ tossMessages[i].content.key = generateKey(storage).val

\* what C11 promises while passphrase p is stored
C11_Promise(p) ==
  /\ isKeyValid(ProcessClient, p)
  /\ StatusOf(p) = "valid"
  /\ \A i \in 1..Len(tossMessages) :
       UnderStoredKey(i) =>
         decryptContent(tossMessages[i].content, TRUE, p)
           = Return(tossMessages[i].content.str)

\* what C11 promises of a step: a send under the stored key encrypts the
\* typed text, a render shows each entry under the stored key as that text
C11_StepPromise ==
  /\ SendsInsert =>
       (inserts'[Len(inserts')].content.env
          => inserts'[Len(inserts')].content.str = text)
  /\ Render =>
       \A i \in 1..Len(tossMessages) :
         UnderStoredKey(i) =>
           /\ Len(rendered') = Len(tossMessages)
           /\ rendered'[i] = tossMessages[i].content.str

\* C11 as stated: after setKey(p) with a passphrase that passes validation,
\* isKeyValid() is true, the status is valid, and every entry sent while p
\* is stored is rendered as exactly the typed text while p stays stored.
C11_ValidatedKeyWorks ==
  /\ []((storage # NULL /\ validateKey(storage)) => C11_Promise(storage))
  /\ [][C11_StepPromise]_vars

\* C11, amended: the same for a passphrase that passes validation and
\* holds no unpaired surrogate code unit.
C11_WellFormedKeyWorks ==
  /\ []((storage # NULL /\ validateKey(storage) /\ IsWellFormed(storage))
          => C11_Promise(storage))
  /\ [][C11_StepPromise]_vars

\* a row sent in this visit under the stored passphrase is on screen as typed
C11_Witness ==
  /\ ~dirty /\ storage # NULL /\ validateKey(storage)
  /\ aseKeyStatus = "valid"
  /\ Len(rendered) = Len(tossMessages)
  /\ \E i \in 1..Len(tossMessages) :
       /\ UnderStoredKey(i) /\ tossMessages[i].text_id > 1
       /\ rendered[i] = <<"a">>

\* the five operations of ASEKeyManager
KmOps == {"getKey", "setKey", "removeKey", "hasKey", "isKeyValid"}

\* the localStorage access of the last call did not throw
StorageAnswered(writes) == ~(kmClient /\ LocalStorageThrows(kmStore, writes))

\* C12: isKeyValid() returns true if and only if a passphrase is stored and
\* both validateKey and testKey return true for it; it returns false when
\* no passphrase is stored.
C12_IsKeyValidComposes ==
  (kmOp = "isKeyValid" /\ kmRes.ok) =>
    LET key == getKey(kmClient, storage) IN
    /\ kmRes.val = Boolean(key # NULL /\ validateKey(key) /\ testKey(key))
    /\ key = NULL => kmRes.val = Boolean(FALSE)

\* isKeyValid() answered true for a stored passphrase
C12_Witness ==
  /\ kmOp = "isKeyValid" /\ kmRes = Return(Boolean(TRUE))
  /\ storage # NULL /\ validateKey(storage) /\ testKey(storage)

\* C13: no ASEKeyManager operation ever throws, in any state, also when the
\* storage access or the cipher fails: every error is a null or false return.
C13_KeyManagerNeverThrows == kmOp \in KmOps => kmRes.ok

\* encrypt or decrypt throws in the self-test of passphrase p
CipherFails(p) ==
  \E salt \in Salts :
    \/ ~encrypt(TestText, p, salt).ok
    \/ ~decrypt(encrypt(TestText, p, salt).val, p).ok

\* C14: testKey(p) returns true for every passphrase that passes validateKey
\* when the cipher primitive works; when it fails (encrypt or decrypt
\* throws) testKey returns false and isKeyValid returns false, and no
\* exception escapes.
C14_SelfTest ==
  /\ kmOp = "testKey" =>
       /\ kmRes.ok
       /\ (validateKey(kmArg) /\ ~CipherFails(kmArg)) => kmRes.val = Boolean(TRUE)
       /\ CipherFails(kmArg) => kmRes.val = Boolean(FALSE)
  /\ (kmOp = "isKeyValid" /\ StorageAnswered(FALSE)) =>
       /\ kmRes.ok
       /\ (getKey(kmClient, storage) # NULL /\ CipherFails(getKey(kmClient, storage)))
            => kmRes.val = Boolean(FALSE)

\* the self-test of a passphrase that passes validateKey met a cipher that
\* throws, and answered false
C14_Witness ==
  /\ kmOp = "testKey" /\ validateKey(kmArg) /\ CipherFails(kmArg)
  /\ kmRes = Return(Boolean(FALSE))

\* the length of p between its first and its last non-whitespace character
C15_TrimmedLength(p) ==
  LET solid == {i \in 1..Len(p) : p[i] \notin Whitespace} IN
  IF solid = {} THEN 0
  ELSE (CHOOSE i \in solid : \A j \in solid : j <= i)
         - (CHOOSE i \in solid : \A j \in solid : i <= j) + 1

\* C15: validateKey(p) returns false exactly when p is empty, consists only
\* of whitespace or has fewer than 8 characters after trimming, and true for
\* every other string (8 characters after trimming are accepted, 7 are not).
C15_ValidateKey ==
  kmOp = "validateKey" =>
    kmRes = Return(Boolean(~(\/ kmArg = <<>>
                             \/ \A i \in 1..Len(kmArg) : kmArg[i] \in Whitespace
                             \/ C15_TrimmedLength(kmArg) < 8)))

\* a padded string of exactly 8 characters after trimming is accepted
C15_Witness ==
  /\ kmOp = "validateKey" /\ Len(kmArg) > 8 /\ C15_TrimmedLength(kmArg) = 8
  /\ kmRes = Return(Boolean(TRUE))

\* C16: in a client context, after setKey(k) for any string k, valid or not,
\* getKey() returns exactly k until the next setKey or removeKey; a second
\* setKey overwrites the first.
C16_SetThenGet ==
  /\ [][(kmOp' = "setKey" /\ kmRes'.ok /\ kmClient) => storage' = kmArg']_vars
  /\ [][(kmOp' \notin {"setKey", "removeKey"}) => storage' = storage]_vars
  /\ []((kmOp = "getKey" /\ kmRes.ok /\ kmClient) => kmRes.val = storage)

\* setKey replaced another stored string by one that fails validation
C16_Witness ==
  /\ kmOp = "setKey" /\ kmRes.ok /\ kmClient
  /\ kmBefore # NULL /\ kmBefore # kmArg /\ ~validateKey(kmArg)
  /\ storage = kmArg

\* C17: after removeKey(), whatever the state before it, hasKey() is false,
\* getKey() is null and isKeyValid() is false until the next setKey;
\* removeKey on an absent key leaves it absent.
C17_RemoveKey ==
  /\ [][(kmOp' = "removeKey" /\ kmRes'.ok) => getKey(kmClient, storage') = NULL]_vars
  /\ [][(getKey(kmClient, storage) = NULL /\ kmOp' # "setKey")
          => getKey(kmClient, storage') = NULL]_vars
  /\ []((getKey(kmClient, storage) = NULL /\ kmRes.ok) =>
          /\ kmOp = "hasKey" => kmRes.val = Boolean(FALSE)
          /\ kmOp = "getKey" => kmRes.val = NULL
          /\ kmOp = "isKeyValid" => kmRes.val = Boolean(FALSE))

\* removeKey deleted a stored passphrase
C17_Witness ==
  /\ kmOp = "removeKey" /\ kmRes.ok /\ kmClient
  /\ kmBefore # NULL /\ validateKey(kmBefore)
  /\ storage = NULL

\* C18: getKey() returns null outside a client context, whatever was
\* stored, and whenever no passphrase is stored; outside a client context
\* setKey and removeKey change nothing.
C18_NonClient ==
  /\ []((kmOp = "getKey" /\ ~kmClient) => kmRes = Return(NULL))
  /\ []((kmOp = "getKey" /\ kmRes.ok /\ storage = NULL) => kmRes.val = NULL)
  /\ [][~kmClient => (/\ storage' = storage
                      /\ kmOp' \in {"setKey", "removeKey"} => kmRes'.ok)]_vars

\* outside a client context getKey answered null over a stored passphrase
C18_Witness ==
  /\ ~kmClient /\ storage # NULL /\ validateKey(storage)
  /\ kmOp = "getKey" /\ kmRes = Return(NULL)

\* C19: hasKey() is true exactly when getKey() is not null, whether or not
\* the stored string passes validation: a stored string that is empty or
\* too short gives hasKey() = true and isKeyValid() = false.
C19_HasKeyIsExistence ==
  /\ hasKey(kmClient, storage) = (getKey(kmClient, storage) # NULL)
  /\ (kmOp = "hasKey" /\ kmRes.ok)
       => kmRes.val = Boolean(getKey(kmClient, storage) # NULL)
  /\ (kmOp = "isKeyValid" /\ kmRes.ok /\ getKey(kmClient, storage) # NULL
        /\ ~validateKey(getKey(kmClient, storage))) => kmRes.val = Boolean(FALSE)

\* hasKey() answered true over a stored empty string
C19_Witness ==
  /\ kmClient /\ storage = <<>>
  /\ kmOp = "hasKey" /\ kmRes = Return(Boolean(TRUE))

\* the status s agrees with hasKey() and isKeyValid() over the slot
StatusAgrees(s, slot) ==
  /\ s \in {"none", "valid", "invalid"}
  /\ s = "none" <=> ~hasKey(ProcessClient, slot)
  /\ s = "valid" <=> isKeyValid(ProcessClient, slot)
  /\ s = "invalid" <=> (hasKey(ProcessClient, slot) /\ ~isKeyValid(ProcessClient, slot))

\* saveASEToken reached its call of checkASEKeyStatus
ComputesStatus ==
  saveASEToken /\ loginError' \in {"key saved", "key not saved, check its format"}

\* C20: whenever the account modal computes the key status, the result is
\* none exactly when hasKey() is false, valid exactly when isKeyValid() is
\* true and invalid exactly when hasKey() is true and isKeyValid() is false;
\* with no key stored (as on mount) it is none.
C20_StatusMatchesManager ==
  /\ [](storage = NULL =>
          /\ aseKeyStatus = "none"
          /\ ~hasKey(ProcessClient, storage) /\ ~isKeyValid(ProcessClient, storage))
  /\ [][ComputesStatus => StatusAgrees(aseKeyStatus', storage')]_vars

\* the account modal computed invalid for a stored passphrase
C20_Witness ==
  /\ loginError = "key not saved, check its format"
  /\ aseKeyStatus = "invalid"
  /\ hasKey(ProcessClient, storage) /\ ~isKeyValid(ProcessClient, storage)

(***************************************************************************)
(* Claims about the key-change flows of the two dialogs.                   *)
(***************************************************************************)
\* the account view of the login dialog is on screen
AccountViewShown == showLoginModal /\ currentUser # NoUser /\ ~dirty

\* C21: the key status held by the account modal is recomputed on every
\* change of the stored key, also one made by the key-setup modal: whenever
\* the account view is displayed, aseKeyStatus is the status (none / valid /
\* invalid) of the key now stored.
C21_StatusFollowsStoredKey ==
  AccountViewShown => aseKeyStatus = StatusOf(storage)

\* a save whose input the handler's validation rejected: ASEKeyModal.saveKey
\* returning at validateKey(), saveASEToken returning at its two length tests
C22_Rejected ==
  \/ saveKey /\ keyError' \in {"enter key", "key too short", "keys differ"}
  \/ saveASEToken /\ loginError' \in {"enter key", "key too short"}

\* C22: starting with no key stored, the stored passphrase (if any) passes
\* CryptoUtil.validateKey after any sequence of actions in the two dialogs,
\* since neither saveKey nor saveASEToken hands setKey a passphrase that
\* fails validation; an input rejected by validation leaves the stored key
\* unchanged and sets an error message, and the step does nothing else: no
\* status is computed, nothing is sent and no render is scheduled, so the
\* cipher is not reached.
C22_StoredKeyValidated ==
  /\ [](storage # NULL => validateKey(storage))
  /\ [][(saveKey \/ saveASEToken) =>
          (storage' # storage => (storage' # NULL /\ validateKey(storage')))]_vars
  /\ [][C22_Rejected =>
          /\ storage' = storage
          /\ keyError' # "" \/ loginError' # ""
          /\ UNCHANGED <<alert, appVars, backendVars, aseKeyStatus, loginLoading,
                         showSkipOption, keyLoading>>]_vars

\* the key dialog refused a passphrase that is too short; nothing is stored
C22_Witness ==
  /\ showASEKeyModal /\ keyError = "key too short"
  /\ storage = NULL /\ selects = <<>> /\ ~dirty

\* ASEKeyModal.saveKey reached emit('success') and close()
EmitsSuccess == saveKey /\ showASEKeyModal /\ ~showASEKeyModal'

\* a step in which app.vue's handleASEKeySuccess sends its reload
SendsReload ==
  /\ Len(selects') = Len(selects) + 1
  /\ selects'[Len(selects')].cont = "reload"

\* the account modal recomputed the status (saveASEToken) or reset it
\* (removeASEToken after a confirmed removal)
RecomputesStatus == saveASEToken /\ ComputesStatus
ResetsStatus == removeASEToken /\ loginError' = "key removed"

\* C24: in every key-change flow the reaction follows the completed write:
\* when saveKey emits 'success' the slot already holds the new passphrase,
\* and handleASEKeySuccess then clears the list and sends the reload; when
\* the account modal recomputes or resets the status the slot already holds
\* the value written; and no such reaction happens in a step that has not
\* written the slot.
C24_ReactionFollowsWrite ==
  /\ [][EmitsSuccess =>
          /\ storage' # NULL /\ storage' # storage
          /\ currentUser # NoUser => (SendsReload /\ tossMessages' = <<>>)]_vars
  /\ [][RecomputesStatus =>
          /\ storage' # NULL /\ Len(storage') >= MinKeyLength
          /\ aseKeyStatus' = StatusOf(storage')]_vars
  /\ [][ResetsStatus => (storage' = NULL /\ aseKeyStatus' = "none")]_vars
  /\ [][(SendsReload \/ aseKeyStatus' # aseKeyStatus) =>
          (EmitsSuccess \/ RecomputesStatus \/ ResetsStatus)]_vars

\* the reload that follows a key saved in the key dialog is on its way
C24_Witness ==
  /\ storage # NULL /\ ~showASEKeyModal /\ tossMessages = <<>>
  /\ \E i \in 1..Len(selects) : selects[i].cont = "reload" /\ ~selects[i].served

\* a step that reaches ASEKeyManager.setKey or removeKey
CallsSetOrRemove == EmitsSuccess \/ RecomputesStatus \/ ResetsStatus

\* handlers of the page that do not write the key
C23_Others ==
  \/ Render \/ DismissAlert \/ TypeText \/ OpenLoginModal
  \/ sendTossMessage \/ InsertDone \/ copyToClipboard \/ INSERTCallback
  \/ SelectServe \/ SelectDone \/ MountGetUserDone
  \/ loginClose \/ handleLogin \/ handleLoginDone
  \/ loginHandleLogout \/ loginHandleLogoutDone \/ clearMessage
  \/ keyModalClose

\* C23: the stored passphrase changes only inside ASEKeyManager.setKey and
\* removeKey: sending, rendering (decryptContent), copying, the realtime
\* INSERT callback, login, logout, a declined removal confirmation, a save
\* that is rejected and closing the key-setup modal all leave it unchanged:
\* a step that changes the slot is a step of saveKey, saveASEToken or
\* removeASEToken that reaches the call, and a step of no other handler.
C23_OnlySetAndRemoveWrite ==
  [][storage' # storage => (CallsSetOrRemove /\ ~C23_Others)]_vars

\* an entry encrypted under the stored key has been copied, a removal of
\* the key was declined or never asked for, and the key is still stored
C23_Witness ==
  /\ alert = "copied" /\ aseKeyStatus = "valid"
  /\ \E i \in 1..Len(tossMessages) : UnderStoredKey(i)

\* saveKey returned at its validation or at its self-test
SaveKeyFails == keyError' # "" /\ saveKey

\* what the dialog's own validateKey lets through in the mode it is in
ConfirmationMatched ==
  \A typed, confirmTyped \in AppKeys :
    keyModalValidateKey(typed, confirmTyped, showSkipOption) = ""
      => (validateKey(trim(typed)) /\ confirmTyped = trim(typed))

\* C29 (as stated): saveKey calls setKey(k) and emits 'success' only after
\* the confirmation input matched and testKey returned true for the string k
\* that is stored, in first-time setup and when the dialog was opened with a
\* key already stored; if validation or the self-test fails, setKey is not
\* called, 'success' is not emitted and the dialog stays open.
C29_AlwaysConfirmedAndTested ==
  /\ [][EmitsSuccess =>
          (storage' # NULL /\ validateKey(storage') /\ testKey(storage'))]_vars
  /\ [][SaveKeyFails =>
          /\ storage' = storage /\ showASEKeyModal'
          /\ selects' = selects /\ tossMessages' = tossMessages]_vars

\* C29 (amended): in first-time setup saveKey calls setKey(k) and emits
\* 'success' only after the confirmation input matched and testKey returned
\* true for the string k that is stored; in a dialog opened with a key
\* already stored it does so after validateKey alone, with no confirmation
\* and no self-test; if validation or the self-test fails, setKey is not
\* called, 'success' is not emitted and the dialog stays open.
C29_FirstSetupConfirmedAndTested ==
  /\ [][EmitsSuccess =>
          /\ storage' # NULL /\ validateKey(storage')
          /\ ~showSkipOption => testKey(storage')]_vars
  /\ []((showASEKeyModal /\ ~showSkipOption) => ConfirmationMatched)
  /\ [][SaveKeyFails =>
          /\ storage' = storage /\ showASEKeyModal'
          /\ selects' = selects /\ tossMessages' = tossMessages]_vars

\* in first-time setup the self-test refused a passphrase that passes
\* validation: nothing is stored and the dialog is still open
C29_Witness ==
  /\ showASEKeyModal /\ ~showSkipOption
  /\ keyError = "key test failed" /\ storage = NULL /\ selects = <<>>

(***************************************************************************)
(* Claims about the realtime feed and the requests in flight.              *)
(***************************************************************************)
\* C25: after handleLogout the message list stays empty until the next
\* successful login: a realtime INSERT event for the previous user that is
\* delivered after the logout adds no entry to tossMessages.
C25_EmptyAfterLogout ==
  currentUser = NoUser => tossMessages = <<>>

\* C28: in the login modal, loading is true for the whole time an auth
\* request is in flight and false otherwise; close() does not reset loading
\* while a request is pending.
C28_LoadingCoversRequest ==
  loginLoading <=> authReqs # <<>>

\* no text_id occurs twice in the list
NoDuplicate(list) ==
  \A i, j \in 1..Len(list) : list[i].text_id = list[j].text_id => i = j

\* the message of the change feed that is delivered in this step
Delivered(eventType) ==
  INSERTCallback /\ (Head(events).eventType = "INSERT" <=> eventType = "INSERT")

\* C26: each row inserted in the backend appears at most once in
\* tossMessages, after any number of mount / login / logout / login cycles:
\* one INSERT event appends exactly one entry, with its encrypted field a
\* boolean, and an UPDATE or DELETE event leaves the list unchanged.
C26_AtMostOnce ==
  /\ [](NoDuplicate(tossMessages))
  /\ [][Delivered("INSERT") =>
          /\ Len(tossMessages') = Len(tossMessages) + 1
          /\ tossMessages'[Len(tossMessages')].encrypted \in BOOLEAN]_vars
  /\ [][Delivered("UPDATE") => tossMessages' = tossMessages]_vars

\* the rows of the current user that the list shows
Shown(list) == {list[i].text_id : i \in {k \in 1..Len(list) : list[k].user_id = currentUser}}

\* C27: no entry is lost or duplicated when an INSERT event interleaves with
\* an awaited selectAllTossMessages: the assignment that completes a load
\* keeps every entry an event has delivered during the await, and the list
\* never holds a row twice.
C27_NoLossNoDuplicate ==
  /\ [][(SelectDone /\ currentUser # NoUser) =>
          Shown(tossMessages) \subseteq Shown(tossMessages')]_vars
  /\ [][(SelectDone \/ INSERTCallback) =>
          (NoDuplicate(tossMessages) => NoDuplicate(tossMessages'))]_vars

(***************************************************************************)
(* Claims about the login dialog.                                          *)
(***************************************************************************)
\* handleLogin resumes after a sign-in that succeeded / that failed
SignInSucceeds == handleLoginDone /\ Len(selects') = Len(selects) + 1
SignInFails == handleLoginDone /\ selects' = selects
\* handleLogin returns at validateForm
FormRejected == handleLoginUnder(MaxFeedListeners) /\ authReqs' = authReqs

\* C30: after a successful sign-in handleLogin emits 'showASEKeyModal' if
\* and only if no key is stored, and then it has emitted 'loginSuccess' (the
\* user is set and the load is sent) and closed the login modal; a failed
\* sign-in or a form that fails validation emits neither event, does not
\* close the modal, leaves an error message and ends with loading = false.
C30_KeyModalIffNoKey ==
  /\ [][SignInSucceeds =>
          /\ showASEKeyModal' <=> storage = NULL
          /\ currentUser' \in Users
          /\ selects'[Len(selects')] = SelectRequest("login", currentUser')
          /\ ~showLoginModal' /\ ~loginLoading']_vars
  /\ [][(SignInFails \/ FormRejected) =>
          /\ UNCHANGED <<showASEKeyModal, currentUser, tossMessages, selects,
                         listeners, showLoginModal>>
          /\ loginError' # "" /\ ~loginLoading']_vars

\* a user has signed in over a stored key: the load is on its way, the login
\* dialog is closed and the key dialog has not been opened
C30_Witness ==
  /\ storage # NULL /\ currentUser \in Users
  /\ ~showLoginModal /\ ~showASEKeyModal /\ ~loginLoading
  /\ \E i \in 1..Len(selects) : selects[i].cont = "login"

====
